---- MODULE Spec2Model ----
(***************************************************************************)
(* A model of transcribe_script.py: the function transcribe_audio, called  *)
(* any number of times in one process.  Every statement of the function    *)
(* that can change the program's state or raise is one step; the variable  *)
(* pc is the position of the call in the function body.                    *)
(***************************************************************************)
EXTENDS Integers, Sequences, FiniteSets, TLC

(***************************************************************************)
(* Bounds of the model.                                                    *)
(***************************************************************************)
MaxCalls == 2          \* calls of transcribe_audio in one process
MaxSeconds == 2        \* whole seconds of decoded audio
MaxSegmentSec == 2     \* largest --segment_length tried
MaxChannels == 2       \* channels of the decoded file

(***************************************************************************)
(* Program constants.                                                      *)
(***************************************************************************)
TargetRate == 16000
MsPerSec == 1000

\* model instance id of "the attribute asr_model is not set"
NoModel == 0

SampleRates == {8000, TargetRate, 44100}
\* len(audio) in ms: whole seconds, one ms past them, and half past them
TotalLengths == {k * MsPerSec + d : k \in 0..MaxSeconds, d \in {0, 1, 500}}
SegmentLengths == (-1)..MaxSegmentSec
MaxSegments == MaxSeconds + 1
\* the names tempfile can hand out
TempNames == 1..MaxSegments
\* what asr_model.transcribe can return for one file: nothing, a hypothesis
\* with empty text, a hypothesis with text
ModelReturns == {<<>>, <<"">>, <<"hi">>}
ErrorKinds == {"FileNotFoundError", "Exception"}

Placeholder == "[Transcription Failed for Segment]"
MsgLoading == "Loading Parakeet TDT model..."
MsgLoaded == "Model loaded and moved to GPU."
MsgNotFound == "Error: Audio file not found"
MsgProcessing == "Processing audio file"
MsgToMono == "Converting to mono."
MsgResample == "Resampling to 16000 Hz."
MsgTotal == "Total audio length"
MsgSplitting == "Splitting into segments"
MsgTranscribing == "Transcribing segment"
MsgHeader == "Full Transcription:"
MsgFFmpeg == "Error: Required library (like FFmpeg for some audio formats) might not be installed or found."
MsgFFmpegPath == "Please ensure FFmpeg is installed and in your system's PATH."
MsgError == "An error occurred"
MsgCleaned == "Temporary files cleaned up."

NoAudio == [channels |-> 0, frame_rate |-> 0, length |-> 0]
Absent == <<"absent">>
EmptyFile == <<"empty">>
Wav(s, e) == <<"wav", s, e>>

VARIABLES
    asr_model,            \* transcribe_audio.asr_model: NoModel or an instance id
    loads,                \* from_pretrained(...).cuda() calls that succeeded
    calls,                \* calls of transcribe_audio so far
    pc,                   \* position of the running call, "idle" between calls
    outcome,              \* how the last call ended: "none", "returned", "raised"
    exc,                  \* the exception in flight: "none" or its kind
    failed_at,            \* the step that raised in this call, "none" if none
    path_exists,          \* os.path.exists(audio_path)
    segment_length_sec,   \* the argument
    model_local,          \* the local asr_model
    audio,                \* the local audio (pydub AudioSegment attributes)
    segment_length_ms, total_length_ms, num_segments,
    i, start_time, end_time,
    segments,             \* the [start_time, end_time) of every iteration so far
    temp_files,           \* the local list temp_files
    files,                \* the temp directory: name -> content
    temp_wav_file_path,
    segment_transcription,
    returns,              \* what the model returned, call by call
    transcribed,          \* the path given to every asr_model.transcribe call
    all_transcriptions,
    final_transcription,
    printed               \* standard output of the running call

procvars == <<asr_model, loads, calls>>
ctlvars == <<pc, outcome, exc, failed_at>>
argvars == <<path_exists, segment_length_sec>>
splitvars == <<segment_length_ms, total_length_ms, num_segments>>
loopvars == <<i, start_time, end_time, segments>>
filevars == <<temp_files, files, temp_wav_file_path>>
asrvars == <<segment_transcription, returns, transcribed>>
outvars == <<all_transcriptions, final_transcription>>
vars == <<procvars, ctlvars, argvars, model_local, audio, splitvars, loopvars,
          filevars, asrvars, outvars, printed>>

Stdout(msgs) == printed' = printed \o msgs

Init ==
    /\ asr_model = NoModel /\ loads = 0 /\ calls = 0
    /\ pc = "idle" /\ outcome = "none" /\ exc = "none" /\ failed_at = "none"
    /\ path_exists = FALSE /\ segment_length_sec = 60
    /\ model_local = NoModel /\ audio = NoAudio
    /\ segment_length_ms = 0 /\ total_length_ms = 0 /\ num_segments = 0
    /\ i = 0 /\ start_time = 0 /\ end_time = 0 /\ segments = <<>>
    /\ temp_files = <<>> /\ files = [n \in TempNames |-> Absent]
    /\ temp_wav_file_path = 0
    /\ segment_transcription = <<>> /\ returns = <<>> /\ transcribed = <<>>
    /\ all_transcriptions = <<>> /\ final_transcription = ""
    /\ printed = <<>>

(***************************************************************************)
(* The expressions of the function body.                                   *)
(***************************************************************************)
\* math.ceil(a / b) for integers a and b, b # 0
CeilDiv(a, b) == IF b > 0 THEN -((-a) \div b) ELSE -(a \div (-b))

\* variant: the segment length taken by its magnitude
NumSegmentsAbs(total, seg_ms) ==
    CeilDiv(total, IF seg_ms < 0 THEN -seg_ms ELSE seg_ms)

NumSegments(total, seg_ms) == CeilDiv(total, seg_ms)

Min(a, b) == IF a <= b THEN a ELSE b

StartTime(k, seg_ms) == k * seg_ms

\* variant: the end of the last segment is not clipped to the total length
EndTimeNoClip(k, seg_ms, total) == (k + 1) * seg_ms

EndTime(k, seg_ms, total) == Min((k + 1) * seg_ms, total)

\* variant: the cached attribute is never found
IsLoadedNever == FALSE

\* hasattr(transcribe_audio, "asr_model")
IsLoaded == asr_model # NoModel

NeedsMono(a) == a.channels > 1

\* variant: only rates above the target are resampled
NeedsResampleDownOnly(a) == a.frame_rate > TargetRate

NeedsResample(a) == a.frame_rate # TargetRate

SetChannels(a, n) == [a EXCEPT !.channels = n]

SetFrameRate(a, r) == [a EXCEPT !.frame_rate = r]

\* the two conditional conversions, as one function of the decoded buffer
Normalize(a) ==
    LET m == IF NeedsMono(a) THEN SetChannels(a, 1) ELSE a
    IN  IF NeedsResample(m) THEN SetFrameRate(m, TargetRate) ELSE m

\* variant: the return after the not-found message is missing
AfterExistsCheckNoReturn(exists) == "decode"

\* where the existence check sends the call
AfterExistsCheck(exists) == IF exists THEN "decode" ELSE "finally"

\* variant: a name is handed out whether or not a file has it
FreeNamesAny == TempNames

\* the names NamedTemporaryFile can create: those of no existing file
FreeNames == {n \in TempNames : files[n] = Absent}

\* variant: a result with empty text gets the placeholder too
FragmentNonEmptyText(r) ==
    IF Len(r) > 0 /\ r[1] # "" THEN r[1] ELSE Placeholder

\* the fragment appended for one result of asr_model.transcribe
Fragment(r) == IF Len(r) > 0 THEN r[1] ELSE Placeholder

\* " ".join(texts)
RECURSIVE Join(_)
Join(texts) ==
    IF texts = <<>> THEN ""
    ELSE IF Len(texts) = 1 THEN texts[1]
    ELSE texts[1] \o " " \o Join(Tail(texts))

\* variant: only the last recorded path is removed
CleanupLastOnly(fs, paths) ==
    [n \in TempNames |->
        IF paths # <<>> /\ paths[Len(paths)] = n THEN Absent ELSE fs[n]]

\* the temp directory after the cleanup loop over paths
Cleanup(fs, paths) ==
    [n \in TempNames |->
        IF (\E k \in 1..Len(paths) : paths[k] = n) /\ fs[n] # Absent
        THEN Absent ELSE fs[n]]

\* an exception raised inside the try block
Raise(kind, where) ==
    /\ pc' = "except" /\ exc' = kind /\ failed_at' = where
    /\ UNCHANGED outcome

Goto(next) == pc' = next /\ UNCHANGED <<outcome, exc, failed_at>>

(***************************************************************************)
(* The steps.                                                              *)
(***************************************************************************)
\* transcribe_audio(audio_path, segment_length_sec) is called
Call ==
    /\ pc = "idle" /\ calls < MaxCalls
    /\ calls' = calls + 1
    /\ \E e \in BOOLEAN, s \in SegmentLengths :
          /\ path_exists' = e
          /\ segment_length_sec' = s
    /\ pc' = "model" /\ outcome' = "none" /\ exc' = "none" /\ failed_at' = "none"
    /\ model_local' = NoModel /\ audio' = NoAudio
    /\ segment_length_ms' = 0 /\ total_length_ms' = 0 /\ num_segments' = 0
    /\ i' = 0 /\ start_time' = 0 /\ end_time' = 0 /\ segments' = <<>>
    /\ temp_files' = <<>> /\ temp_wav_file_path' = 0
    /\ segment_transcription' = <<>> /\ returns' = <<>> /\ transcribed' = <<>>
    /\ all_transcriptions' = <<>> /\ final_transcription' = ""
    /\ printed' = <<>>
    /\ UNCHANGED <<asr_model, loads, files>>

\* lines 22-26, the load succeeds
LoadModel ==
    /\ pc = "model" /\ ~IsLoaded
    /\ loads' = loads + 1
    /\ asr_model' = loads + 1
    /\ Stdout(<<MsgLoading, MsgLoaded>>)
    /\ Goto("locals")
    /\ UNCHANGED <<calls, argvars, model_local, audio, splitvars, loopvars,
                   filevars, asrvars, outvars>>

\* lines 22-25, from_pretrained or cuda raises: outside the try block
LoadModelFail ==
    /\ pc = "model" /\ ~IsLoaded
    /\ Stdout(<<MsgLoading>>)
    /\ \E kind \in ErrorKinds : exc' = kind
    /\ pc' = "idle" /\ outcome' = "raised" /\ failed_at' = "load"
    /\ UNCHANGED <<procvars, argvars, model_local, audio, splitvars, loopvars,
                   filevars, asrvars, outvars>>

\* line 22, the attribute is there: nothing is loaded
SkipLoad ==
    /\ pc = "model" /\ IsLoaded
    /\ Goto("locals")
    /\ UNCHANGED <<procvars, argvars, model_local, audio, splitvars, loopvars,
                   filevars, asrvars, outvars, printed>>

\* lines 28-30
Locals ==
    /\ pc = "locals"
    /\ model_local' = asr_model
    /\ temp_files' = <<>>
    /\ Goto("exists")
    /\ UNCHANGED <<procvars, argvars, audio, splitvars, loopvars, files,
                   temp_wav_file_path, asrvars, outvars, printed>>

\* lines 34-38
CheckExists ==
    /\ pc = "exists"
    /\ Stdout(IF path_exists THEN <<MsgProcessing>> ELSE <<MsgNotFound>>)
    /\ Goto(AfterExistsCheck(path_exists))
    /\ UNCHANGED <<procvars, argvars, model_local, audio, splitvars, loopvars,
                   filevars, asrvars, outvars>>

\* line 41
Decode ==
    /\ pc = "decode"
    /\ \E c \in 1..MaxChannels, r \in SampleRates, t \in TotalLengths :
          audio' = [channels |-> c, frame_rate |-> r, length |-> t]
    /\ Goto("mono")
    /\ UNCHANGED <<procvars, argvars, model_local, splitvars, loopvars,
                   filevars, asrvars, outvars, printed>>

DecodeFail ==
    /\ pc = "decode"
    /\ \E kind \in ErrorKinds : Raise(kind, "decode")
    /\ UNCHANGED <<procvars, argvars, model_local, audio, splitvars, loopvars,
                   filevars, asrvars, outvars, printed>>

\* lines 44-46
ToMono ==
    /\ pc = "mono"
    /\ IF NeedsMono(audio)
       THEN /\ Stdout(<<MsgToMono>>)
            /\ audio' = SetChannels(audio, 1)
       ELSE UNCHANGED <<audio, printed>>
    /\ Goto("rate")
    /\ UNCHANGED <<procvars, argvars, model_local, splitvars, loopvars,
                   filevars, asrvars, outvars>>

ToMonoFail ==
    /\ pc = "mono" /\ NeedsMono(audio)
    /\ Stdout(<<MsgToMono>>)
    /\ \E kind \in ErrorKinds : Raise(kind, "mono")
    /\ UNCHANGED <<procvars, argvars, model_local, audio, splitvars, loopvars,
                   filevars, asrvars, outvars>>

\* lines 49-51
Resample ==
    /\ pc = "rate"
    /\ IF NeedsResample(audio)
       THEN /\ Stdout(<<MsgResample>>)
            /\ audio' = SetFrameRate(audio, TargetRate)
       ELSE UNCHANGED <<audio, printed>>
    /\ Goto("split")
    /\ UNCHANGED <<procvars, argvars, model_local, splitvars, loopvars,
                   filevars, asrvars, outvars>>

ResampleFail ==
    /\ pc = "rate" /\ NeedsResample(audio)
    /\ Stdout(<<MsgResample>>)
    /\ \E kind \in ErrorKinds : Raise(kind, "rate")
    /\ UNCHANGED <<procvars, argvars, model_local, audio, splitvars, loopvars,
                   filevars, asrvars, outvars>>

\* lines 54-61
Split ==
    /\ pc = "split" /\ segment_length_sec # 0
    /\ segment_length_ms' = segment_length_sec * MsPerSec
    /\ total_length_ms' = audio.length
    /\ num_segments' = NumSegments(audio.length, segment_length_sec * MsPerSec)
    /\ Stdout(<<MsgTotal, MsgSplitting>>)
    /\ all_transcriptions' = <<>>
    /\ Goto("loop")
    /\ UNCHANGED <<procvars, argvars, model_local, audio, loopvars, filevars,
                   asrvars, final_transcription>>

\* lines 54-56 with segment_length_sec = 0: the division raises ZeroDivisionError
SplitFail ==
    /\ pc = "split" /\ segment_length_sec = 0
    /\ segment_length_ms' = segment_length_sec * MsPerSec
    /\ total_length_ms' = audio.length
    /\ Raise("Exception", "split")
    /\ UNCHANGED <<procvars, argvars, model_local, audio, num_segments, loopvars,
                   filevars, asrvars, outvars, printed>>

\* lines 63-66: the next value of range(num_segments), or the end of the loop
LoopHead ==
    /\ pc = "loop"
    /\ IF i < num_segments
       THEN /\ start_time' = StartTime(i, segment_length_ms)
            /\ end_time' = EndTime(i, segment_length_ms, total_length_ms)
            /\ segments' = Append(segments,
                                  <<StartTime(i, segment_length_ms),
                                    EndTime(i, segment_length_ms, total_length_ms)>>)
            /\ Goto("alloc")
       ELSE /\ UNCHANGED <<start_time, end_time, segments>>
            /\ Goto("join")
    /\ UNCHANGED <<procvars, argvars, model_local, audio, splitvars, i, filevars,
                   asrvars, outvars, printed>>

\* lines 69-71: the file is created (delete=False) and its name recorded
AllocTemp ==
    /\ pc = "alloc"
    /\ \E n \in FreeNames :
          /\ files' = [files EXCEPT ![n] = EmptyFile]
          /\ temp_wav_file_path' = n
          /\ temp_files' = Append(temp_files, n)
    /\ Goto("export")
    /\ UNCHANGED <<procvars, argvars, model_local, audio, splitvars, loopvars,
                   asrvars, outvars, printed>>

\* line 69, NamedTemporaryFile raises: no file, no name
AllocTempFail ==
    /\ pc = "alloc"
    /\ \E kind \in ErrorKinds : Raise(kind, "alloc")
    /\ UNCHANGED <<procvars, argvars, model_local, audio, splitvars, loopvars,
                   filevars, asrvars, outvars, printed>>

\* lines 74 and 78
Export ==
    /\ pc = "export"
    /\ files' = [files EXCEPT ![temp_wav_file_path] = Wav(start_time, end_time)]
    /\ Stdout(<<MsgTranscribing>>)
    /\ Goto("transcribe")
    /\ UNCHANGED <<procvars, argvars, model_local, audio, splitvars, loopvars,
                   temp_files, temp_wav_file_path, asrvars, outvars>>

ExportFail ==
    /\ pc = "export"
    /\ \E kind \in ErrorKinds : Raise(kind, "export")
    /\ UNCHANGED <<procvars, argvars, model_local, audio, splitvars, loopvars,
                   filevars, asrvars, outvars, printed>>

\* the argument of asr_model.transcribe, line 79
TranscribeArg == temp_wav_file_path

\* line 79
Transcribe ==
    /\ pc = "transcribe"
    /\ transcribed' = Append(transcribed, TranscribeArg)
    /\ \E r \in ModelReturns :
          /\ segment_transcription' = r
          /\ returns' = Append(returns, r)
    /\ Goto("append")
    /\ UNCHANGED <<procvars, argvars, model_local, audio, splitvars, loopvars,
                   filevars, outvars, printed>>

\* variant: the error of one segment is swallowed and the loop goes on
TranscribeFailContinue ==
    /\ pc = "transcribe"
    /\ transcribed' = Append(transcribed, TranscribeArg)
    /\ segment_transcription' = <<>>
    /\ returns' = Append(returns, <<>>)
    /\ pc' = "append" /\ failed_at' = "transcribe"
    /\ UNCHANGED <<procvars, outcome, exc, argvars, model_local, audio, splitvars,
                   loopvars, filevars, outvars, printed>>

TranscribeFail ==
    /\ pc = "transcribe"
    /\ transcribed' = Append(transcribed, TranscribeArg)
    /\ \E kind \in ErrorKinds : Raise(kind, "transcribe")
    /\ UNCHANGED <<procvars, argvars, model_local, audio, splitvars, loopvars,
                   filevars, segment_transcription, returns, outvars, printed>>

\* lines 81-84, and the loop variable moves on
AppendFragment ==
    /\ pc = "append"
    /\ all_transcriptions' = Append(all_transcriptions, Fragment(segment_transcription))
    /\ i' = i + 1
    /\ Goto("loop")
    /\ UNCHANGED <<procvars, argvars, model_local, audio, splitvars, start_time,
                   end_time, segments, filevars, asrvars, final_transcription,
                   printed>>

\* lines 87-90
Aggregate ==
    /\ pc = "join"
    /\ final_transcription' = Join(all_transcriptions)
    /\ Stdout(<<MsgHeader, Join(all_transcriptions)>>)
    /\ Goto("finally")
    /\ UNCHANGED <<procvars, argvars, model_local, audio, splitvars, loopvars,
                   filevars, asrvars, all_transcriptions>>

\* lines 92-94
ExceptFileNotFound ==
    /\ pc = "except" /\ exc = "FileNotFoundError"
    /\ Stdout(<<MsgFFmpeg, MsgFFmpegPath>>)
    /\ pc' = "finally" /\ exc' = "none"
    /\ UNCHANGED <<procvars, outcome, failed_at, argvars, model_local, audio,
                   splitvars, loopvars, filevars, asrvars, outvars>>

\* variant: the generic handler prints and raises again
ExceptExceptionReraise ==
    /\ pc = "except" /\ exc # "FileNotFoundError"
    /\ Stdout(<<MsgError>>)
    /\ pc' = "finally"
    /\ UNCHANGED <<procvars, outcome, exc, failed_at, argvars, model_local, audio,
                   splitvars, loopvars, filevars, asrvars, outvars>>

\* lines 95-96
ExceptException ==
    /\ pc = "except" /\ exc # "FileNotFoundError"
    /\ Stdout(<<MsgError>>)
    /\ pc' = "finally" /\ exc' = "none"
    /\ UNCHANGED <<procvars, outcome, failed_at, argvars, model_local, audio,
                   splitvars, loopvars, filevars, asrvars, outvars>>

\* lines 97-103, then the call ends
Finally ==
    /\ pc = "finally"
    /\ files' = Cleanup(files, temp_files)
    /\ Stdout(<<MsgCleaned>>)
    /\ pc' = "idle"
    /\ outcome' = IF exc = "none" THEN "returned" ELSE "raised"
    /\ UNCHANGED <<procvars, exc, failed_at, argvars, model_local, audio,
                   splitvars, loopvars, temp_files, temp_wav_file_path, asrvars,
                   outvars>>

Next ==
    \/ Call
    \/ LoadModel
    \/ LoadModelFail
    \/ SkipLoad
    \/ Locals
    \/ CheckExists
    \/ Decode
    \/ DecodeFail
    \/ ToMono
    \/ ToMonoFail
    \/ Resample
    \/ ResampleFail
    \/ Split
    \/ SplitFail
    \/ LoopHead
    \/ AllocTemp
    \/ AllocTempFail
    \/ Export
    \/ ExportFail
    \/ Transcribe
    \/ TranscribeFail
    \/ AppendFragment
    \/ Aggregate
    \/ ExceptFileNotFound
    \/ ExceptException
    \/ Finally

Spec == Init /\ [][Next]_vars

(***************************************************************************)
(* Vocabulary of the properties.                                           *)
(***************************************************************************)
Has(msg) == \E k \in 1..Len(printed) : printed[k] = msg

IsInjective(q) == \A a, b \in 1..Len(q) : q[a] = q[b] => a = b

NoFileLeft == \A n \in TempNames : files[n] = Absent

Ended == pc = "idle" /\ calls > 0

\* the normalization of this call has completed
Normalized ==
    /\ audio # NoAudio
    /\ pc \notin {"mono", "rate"}
    /\ failed_at \notin {"mono", "rate"}

\* the call has gone through lines 54-56
PastSplit == Normalized /\ pc # "split"

\* the segment loop of this call has run to its end
LoopDone == PastSplit /\ failed_at = "none" /\ pc \in {"join", "finally", "idle"}

(***************************************************************************)
(* C1: for a positive segment length D and a total length T >= 0 the loop  *)
(* makes exactly ceil(T/D) segments, segment k being                       *)
(* [k*D, min((k+1)*D, T)): consecutive, non-empty, covering [0, T) without *)
(* gap or overlap, the last one ending at T; none when T = 0.              *)
(***************************************************************************)
C1_SegmentsPartition ==
    (PastSplit /\ segment_length_sec > 0) =>
        LET D == segment_length_sec * 1000
            T == audio.length
            n == Len(segments)
        IN  /\ num_segments >= 0
            /\ num_segments * D >= T
            /\ num_segments > 0 => (num_segments - 1) * D < T
            /\ n <= num_segments
            /\ \A k \in 1..n :
                  /\ segments[k][1] = (k - 1) * D
                  /\ segments[k][2] = (IF k * D <= T THEN k * D ELSE T)
                  /\ segments[k][1] < segments[k][2]
                  /\ segments[k][1] = (IF k = 1 THEN 0 ELSE segments[k - 1][2])
            /\ LoopDone =>
                  /\ n = num_segments
                  /\ T > 0 => segments[n][2] = T
                  /\ T = 0 => segments = <<>>

C1_Witness ==
    /\ LoopDone
    /\ segment_length_sec = 1
    /\ segments = <<(<<0, 1000>>), (<<1000, 2000>>), (<<2000, 2001>>)>>

C5_UsesCachedInstance ==
    /\ loads <= 1
    /\ (asr_model = NoModel) <=> (loads = 0)
    /\ pc \notin {"idle", "model", "locals"} =>
          (model_local = asr_model /\ asr_model # NoModel)

C5_CacheStable ==
    [][asr_model # NoModel => (asr_model' = asr_model /\ loads' = loads)]_vars

\* C5: the model is loaded once; after a successful load every call uses the
\* cached instance, which no step replaces or removes
C5_LoadedOnce == []C5_UsesCachedInstance /\ C5_CacheStable

C5_Witness ==
    /\ calls = 2 /\ loads = 1
    /\ pc = "exists" /\ printed = <<>>
    /\ model_local = asr_model /\ asr_model # NoModel

(***************************************************************************)
(* C6: in a call where nothing raises, the fragments are one per segment,  *)
(* in segment order: the text of the first result when the model returned  *)
(* a non-empty list of results for the segment, the placeholder when it    *)
(* returned none; what is printed after the header is the fragments joined *)
(* by single spaces, the empty string when there is no segment.            *)
(***************************************************************************)
RECURSIVE SpaceJoined(_)
SpaceJoined(frags) ==
    IF Len(frags) = 0 THEN ""
    ELSE IF Len(frags) = 1 THEN frags[1]
    ELSE SpaceJoined(SubSeq(frags, 1, Len(frags) - 1)) \o " " \o frags[Len(frags)]

C8_StrictlySequential ==
    pc \notin {"idle", "model", "locals"} =>
        /\ IsInjective(temp_files)
        /\ Len(transcribed) <= Len(temp_files)
        /\ \A k \in 1..Len(transcribed) : transcribed[k] = temp_files[k]
        /\ pc = "alloc" =>
              /\ Len(temp_files) = i /\ Len(transcribed) = i
              /\ Len(all_transcriptions) = i
              /\ Len(segments) = i + 1
        /\ pc = "export" =>
              /\ Len(temp_files) = i + 1 /\ temp_files[i + 1] = temp_wav_file_path
              /\ files[temp_wav_file_path] = EmptyFile
              /\ Len(transcribed) = i /\ Len(all_transcriptions) = i
        /\ pc = "transcribe" =>
              /\ Len(temp_files) = i + 1 /\ temp_files[i + 1] = temp_wav_file_path
              /\ files[temp_wav_file_path] = Wav(segments[i + 1][1], segments[i + 1][2])
              /\ Len(transcribed) = i /\ Len(all_transcriptions) = i
        /\ pc = "append" =>
              /\ Len(transcribed) = i + 1 /\ transcribed[i + 1] = temp_wav_file_path
              /\ Len(all_transcriptions) = i
        /\ pc = "loop" =>
              /\ Len(temp_files) = i /\ Len(transcribed) = i
              /\ Len(all_transcriptions) = i
        /\ pc = "join" =>
              /\ Len(transcribed) = Len(segments)
              /\ Len(all_transcriptions) = Len(segments)

C8_Witness ==
    /\ pc = "append" /\ i = 2
    /\ Len(temp_files) = 3 /\ transcribed = temp_files
    /\ Cardinality({temp_files[k] : k \in 1..3}) = 3

(***************************************************************************)
(* C9: once the normalization has completed the buffer has 1 channel and a *)
(* sample rate of 16000 Hz, and normalizing it again changes nothing; each *)
(* conversion is made only when the attribute differs from its target, and *)
(* changes that attribute alone.                                           *)
(***************************************************************************)
C9_IsNormal ==
    Normalized =>
        /\ audio.channels = 1
        /\ audio.frame_rate = 16000
        /\ Normalize(audio) = audio

C9_ConditionalConversions ==
    [][ /\ (pc = "mono" /\ pc' = "rate") =>
              IF audio.channels = 1
              THEN audio' = audio /\ printed' = printed
              ELSE audio' = [audio EXCEPT !.channels = 1]
        /\ (pc = "rate" /\ pc' = "split") =>
              IF audio.frame_rate = 16000
              THEN audio' = audio /\ printed' = printed
              ELSE audio' = [audio EXCEPT !.frame_rate = 16000] ]_vars

\* C9: normalization yields 1 channel at 16000 Hz by conversions made only
\* when needed, and is a no-op on a buffer already in that format
C9_Normalization == []C9_IsNormal /\ C9_ConditionalConversions

C9_Witness ==
    /\ pc = "split"
    /\ audio.channels = 1 /\ audio.frame_rate = 16000
    /\ ~Has(MsgToMono) /\ ~Has(MsgResample)

(***************************************************************************)
(* C10: the segment length is not validated, and once an existing input    *)
(* has been decoded and normalized a segment length <= 0 never makes the   *)
(* call raise, create a temp file or invoke the model: with 0 the division *)
(* fails, the generic handler prints an error message and no header is     *)
(* printed; with a negative length there is no segment and the header is   *)
(* printed with an empty transcript, whatever the duration.                *)
(***************************************************************************)
C10_NonPositiveSegmentLength ==
    (PastSplit /\ segment_length_sec <= 0) =>
        /\ temp_files = <<>> /\ NoFileLeft
        /\ transcribed = <<>> /\ segments = <<>>
        /\ outcome # "raised"
        /\ pc \notin {"alloc", "export", "transcribe", "append"}
        /\ segment_length_sec = 0 =>
              /\ failed_at = "split"
              /\ ~Has(MsgHeader)
              /\ pc \in {"except", "finally", "idle"}
              /\ pc # "except" => Has(MsgError) /\ ~Has(MsgFFmpeg)
              /\ pc = "idle" => outcome = "returned"
        /\ segment_length_sec < 0 =>
              /\ failed_at = "none"
              /\ num_segments <= 0
              /\ pc \in {"loop", "join", "finally", "idle"}
              /\ pc = "idle" =>
                    /\ outcome = "returned"
                    /\ final_transcription = ""
                    /\ SubSeq(printed, Len(printed) - 2, Len(printed))
                          = <<MsgHeader, "", MsgCleaned>>

C10_Witness ==
    /\ Ended /\ segment_length_sec = -1
    /\ audio.length = 2001
    /\ Has(MsgHeader) /\ final_transcription = ""
    /\ outcome = "returned"

====
